---------------------------- MODULE Spec2Model ----------------------------
(***************************************************************************)
(* Glassine's definition parser (src/src/parser.js) as a state machine.    *)
(*                                                                         *)
(* A text is a sequence of characters, each character a string of length   *)
(* one.  cursor is 0-based as in the source, so text[cursor] of the source *)
(* is At(text, cursor) here.  One step of the machine is one iteration of  *)
(* the outer scan loop of Parser.parse (parser.js:165-276), or the         *)
(* document-level validation that follows it (parser.js:277-291).          *)
(*                                                                         *)
(* The Enum base class (src/src/enum.js) is a second state machine, one    *)
(* step per call of the constructor, of a static property assignment, or   *)
(* of close, ord, name, values and fromName.  Spec is a parse with         *)
(* CommandType defined and closed; SpecEnum is a program that defines      *)
(* enumeration classes of its own, each a direct subclass of Enum.         *)
(***************************************************************************)
EXTENDS Integers, Sequences, FiniteSets, TLC

VARIABLES text, cursor, line, result, pc, err

(* The state of the Enum module (src/src/enum.js) and of the classes that  *)
(* extend Enum: the two registries of the module, the classes Enum.close   *)
(* has frozen, the static properties of each class, the variants that have *)
(* been constructed, and the outcome of the last call.                     *)
VARIABLES values, closed, frozen, statics, instances, ret

enumVars == <<values, closed, frozen, statics, instances, ret>>

vars == <<text, cursor, line, result, pc, err,
          values, closed, frozen, statics, instances, ret>>

---------------------------------------------------------------------------
(* Characters the scanner distinguishes. *)
SP == " "
NL == "\n"
BS == "\\"
HASH == "#"
TAB == "\t"

(* What text[cursor] evaluates to when cursor is past the end of the text. *)
Undefined == "undefined"

(* The characters String.prototype.trim removes, among those of the model. *)
WhiteSpace == {SP, NL, TAB}

(* text[cursor] *)
At(t, c) == IF c >= 0 /\ c < Len(t) THEN t[c + 1] ELSE Undefined

---------------------------------------------------------------------------
(* CommandType: the variants in the order in which they are constructed,   *)
(* each with the ordinal the Enum constructor gives it and its tokens.     *)
FROM == <<"F", "R", "O", "M">>
RUN == <<"R", "U", "N">>
EXEC == <<"E", "X", "E", "C">>
COPY == <<"C", "O", "P", "Y">>
WORKDIR == <<"W", "O", "R", "K", "D", "I", "R">>
ENTRYPOINT == <<"E", "N", "T", "R", "Y", "P", "O", "I", "N", "T">>
CMD == <<"C", "M", "D">>

CommandTypeORIGIN == [name |-> "ORIGIN", ord |-> 0, tokens |-> <<FROM>>]
CommandTypeRUN == [name |-> "RUN", ord |-> 1, tokens |-> <<RUN, EXEC>>]
CommandTypeCOPY == [name |-> "COPY", ord |-> 2, tokens |-> <<COPY>>]
CommandTypeWORKDIR == [name |-> "WORKDIR", ord |-> 3, tokens |-> <<WORKDIR>>]
CommandTypeENTRYPOINT ==
    [name |-> "ENTRYPOINT", ord |-> 4, tokens |-> <<ENTRYPOINT, CMD>>]

(* CommandType.values(): the variants bound on the class, in key order. *)
CommandTypeValues ==
    <<CommandTypeORIGIN, CommandTypeRUN, CommandTypeCOPY, CommandTypeWORKDIR,
      CommandTypeENTRYPOINT>>

(* The result of Array.prototype.find when no element matches. *)
NoType == [name |-> "undefined", ord |-> -1, tokens |-> <<>>]

(* value.tokens().indexOf(token) !== -1 *)
HasToken(value, token) ==
    \E j \in 1..Len(value.tokens) : value.tokens[j] = token

(* A resolver that folds the token to upper case before matching. *)
FoldCase(ch) ==
    CASE ch = "f" -> "F" [] ch = "r" -> "R" [] ch = "o" -> "O"
      [] ch = "m" -> "M" [] OTHER -> ch

fromTokenFolding(token) ==
    LET folded == [i \in 1..Len(token) |-> FoldCase(token[i])]
        hits == {i \in 1..Len(CommandTypeValues) :
                    HasToken(CommandTypeValues[i], folded)}
    IN  IF hits = {} THEN NoType
        ELSE CommandTypeValues[CHOOSE i \in hits : \A k \in hits : i <= k]

(* CommandType.fromToken: the first variant one of whose tokens is token. *)
fromToken(token) ==
    LET hits == {i \in 1..Len(CommandTypeValues) :
                    HasToken(CommandTypeValues[i], token)}
    IN  IF hits = {} THEN NoType
        ELSE CommandTypeValues[CHOOSE i \in hits : \A k \in hits : i <= k]

---------------------------------------------------------------------------
(* String.prototype.trim on a sequence of characters. *)
RECURSIVE TrimLeft(_)
TrimLeft(s) ==
    IF s # <<>> /\ Head(s) \in WhiteSpace THEN TrimLeft(Tail(s)) ELSE s

RECURSIVE TrimRight(_)
TrimRight(s) ==
    IF s # <<>> /\ s[Len(s)] \in WhiteSpace
    THEN TrimRight(SubSeq(s, 1, Len(s) - 1))
    ELSE s

(* A trim that strips the front of the string only. *)
TrimStart(s) == TrimLeft(s)

Trim(s) == TrimRight(TrimLeft(s))

---------------------------------------------------------------------------
(* String.prototype.charCodeAt for the characters of the model. *)
UpperCase ==
    <<"A", "B", "C", "D", "E", "F", "G", "H", "I", "J", "K", "L", "M",
      "N", "O", "P", "Q", "R", "S", "T", "U", "V", "W", "X", "Y", "Z">>
LowerCase ==
    <<"a", "b", "c", "d", "e", "f", "g", "h", "i", "j", "k", "l", "m",
      "n", "o", "p", "q", "r", "s", "t", "u", "v", "w", "x", "y", "z">>

charCodeAt(ch) ==
    CASE ch = TAB -> 9
      [] ch = NL -> 10
      [] ch = SP -> 32
      [] ch = HASH -> 35
      [] ch = BS -> 92
      [] \E i \in 1..26 : UpperCase[i] = ch ->
            64 + (CHOOSE i \in 1..26 : UpperCase[i] = ch)
      [] \E i \in 1..26 : LowerCase[i] = ch ->
            96 + (CHOOSE i \in 1..26 : LowerCase[i] = ch)

(* A 32-bit integer is handled as two 16-bit halves of its two's-complement *)
(* pattern, so that no intermediate value leaves the 32-bit range.          *)
Half == 256 * 256
Hi(h) == (h \div Half) % Half
Lo(h) == h % Half

(* ToInt32 of the pattern hi * 2^16 + lo. *)
ToInt32(hi, lo) ==
    IF hi >= Half \div 2 THEN (hi - Half) * Half + lo ELSE hi * Half + lo

(* hash << 5 : the low 32 bits of hash * 32, read as a signed integer. *)
ShiftLeft5(hash) ==
    LET lo == Lo(hash) * 32
    IN  ToInt32((Hi(hash) * 32 + lo \div Half) % Half, lo % Half)

(* A step of the loop that clamps at the ends of the 32-bit range instead  *)
(* of wrapping around.                                                     *)
HashStepSaturating(hash, chr) ==
    LET lo == 31 * Lo(hash) + chr
        hi == 31 * (hash \div Half) + lo \div Half
    IN  IF hi >= Half \div 2 THEN ToInt32(Half \div 2 - 1, Half - 1)
        ELSE IF hi < 0 - Half \div 2 THEN ToInt32(Half \div 2, 0)
        ELSE ToInt32(hi % Half, lo % Half)

(* hash = ((hash << 5) - hash) + chr; hash |= 0                            *)
(* The sum is an exact double, so ToInt32 of it is the sum of the halves   *)
(* modulo 2^32.                                                            *)
HashStep(hash, chr) ==
    LET shifted == ShiftLeft5(hash)
        lo == Lo(shifted) - Lo(hash) + chr
        hi == Hi(shifted) - Hi(hash) + lo \div Half
    IN  ToInt32(hi % Half, lo % Half)

(* for (let i = 0; i < this.value.length; i++) { ... } *)
RECURSIVE HashLoop(_, _, _)
HashLoop(hash, value, i) ==
    IF i < Len(value)
    THEN HashLoop(HashStep(hash, charCodeAt(value[i + 1])), value, i + 1)
    ELSE hash

(* new Command(type, value): the type, the trimmed value, and the hash     *)
(* computed from the type's ordinal and the trimmed value.                 *)
Command(type, value) ==
    LET trimmed == Trim(value)
        hash == type.ord
    IN  [type |-> type, value |-> trimmed,
         hash |-> HashLoop(ShiftLeft5(hash) - hash, trimmed, 0)]

---------------------------------------------------------------------------
(* The errors Parser.parse throws, by message.  The line-numbered ones     *)
(* carry the line counter, and those that name the token carry it.         *)
MsgExpectedOn == "Expected to see a value after <cmd> on line"
MsgExpectedAt == "Expected to see a value after <cmd> at line"
MsgInvalidEscaping == "Invalid escaping on line"
MsgInvalidCommand == "Invalid command <cmd> on line"
MsgNoOrigin == "Input definition has no origin."
MsgMultipleOrigins == "Input definition has multiple origins."

NoError == [msg |-> "none"]

ExpectedOn(cmd, ln) == [msg |-> MsgExpectedOn, cmd |-> cmd, line |-> ln]
ExpectedAt(cmd, ln) == [msg |-> MsgExpectedAt, cmd |-> cmd, line |-> ln]
InvalidEscaping(ln) == [msg |-> MsgInvalidEscaping, line |-> ln]
(* An invalid-command error that reports the line 0-based. *)
InvalidCommandZeroBased(cmd, ln) ==
    [msg |-> MsgInvalidCommand, cmd |-> cmd, line |-> ln - 1]

InvalidCommand(cmd, ln) == [msg |-> MsgInvalidCommand, cmd |-> cmd, line |-> ln]
NoOrigin == [msg |-> MsgNoOrigin]
MultipleOrigins == [msg |-> MsgMultipleOrigins]

---------------------------------------------------------------------------
(* while (cursor < text.length && text[cursor] === ' ') cursor++ *)
RECURSIVE SkipSpaces(_, _)
SkipSpaces(t, c) ==
    IF c < Len(t) /\ At(t, c) = SP THEN SkipSpaces(t, c + 1) ELSE c

(* A comment loop whose body does not move the cursor, left at once. *)
SkipLineStuck(t, c) == c

(* while (cursor < text.length && text[cursor] !== '\n') cursor++ *)
RECURSIVE SkipLine(_, _)
SkipLine(t, c) ==
    IF c < Len(t) /\ At(t, c) # NL THEN SkipLine(t, c + 1) ELSE c

(* A token loop that does not treat '#' as the start of a comment. *)
RECURSIVE ReadTokenNoComment(_, _, _, _)
ReadTokenNoComment(t, c, cmd, ln) ==
    IF c < Len(t) /\ At(t, c) # SP
    THEN IF At(t, c) = NL
         THEN [cmd |-> cmd, cursor |-> c, skip |-> FALSE,
               err |-> ExpectedOn(cmd, ln)]
         ELSE ReadTokenNoComment(t, c + 1, Append(cmd, At(t, c)), ln)
    ELSE [cmd |-> cmd, cursor |-> c, skip |-> FALSE, err |-> NoError]

(* The token loop: reads cmd up to the first space; a '#' skips the rest   *)
(* of the physical line and sets skip; a newline is an error.              *)
RECURSIVE ReadToken(_, _, _, _)
ReadToken(t, c, cmd, ln) ==
    IF c < Len(t) /\ At(t, c) # SP
    THEN IF At(t, c) = HASH
         THEN [cmd |-> cmd, cursor |-> SkipLine(t, c), skip |-> TRUE,
               err |-> NoError]
         ELSE IF At(t, c) = NL
         THEN [cmd |-> cmd, cursor |-> c, skip |-> FALSE,
               err |-> ExpectedOn(cmd, ln)]
         ELSE ReadToken(t, c + 1, Append(cmd, At(t, c)), ln)
    ELSE [cmd |-> cmd, cursor |-> c, skip |-> FALSE, err |-> NoError]

(* An argument loop that joins the lines of a continuation: the escaped    *)
(* newline is counted but not appended.                                    *)
RECURSIVE ReadArgsJoining(_, _, _, _)
ReadArgsJoining(t, c, ln, args) ==
    IF c < Len(t) /\ At(t, c) # NL
    THEN IF At(t, c) = BS /\ c = Len(t) - 1
         THEN [args |-> args, cursor |-> c, line |-> ln,
               err |-> InvalidEscaping(ln)]
         ELSE IF At(t, c) # BS /\ At(t, c) = HASH
         THEN [args |-> args, cursor |-> SkipLine(t, c), line |-> ln,
               err |-> NoError]
         ELSE LET c1 == IF At(t, c) = BS THEN c + 1 ELSE c
              IN  IF At(t, c1) = NL
                  THEN ReadArgsJoining(t, c1 + 1, ln + 1, args)
                  ELSE ReadArgsJoining(t, c1 + 1, ln, Append(args, At(t, c1)))
    ELSE [args |-> args, cursor |-> c, line |-> ln, err |-> NoError]

(* An argument loop without the check for a backslash at the end of the    *)
(* text: the cursor moves past the end and text[cursor], undefined, is     *)
(* appended.                                                               *)
RECURSIVE ReadArgsNoEndCheck(_, _, _, _)
ReadArgsNoEndCheck(t, c, ln, args) ==
    IF c < Len(t) /\ At(t, c) # NL
    THEN IF At(t, c) # BS /\ At(t, c) = HASH
         THEN [args |-> args, cursor |-> SkipLine(t, c), line |-> ln,
               err |-> NoError]
         ELSE LET c1 == IF At(t, c) = BS THEN c + 1 ELSE c
                  ln1 == IF At(t, c1) = NL THEN ln + 1 ELSE ln
              IN  ReadArgsNoEndCheck(t, c1 + 1, ln1, Append(args, At(t, c1)))
    ELSE [args |-> args, cursor |-> c, line |-> ln, err |-> NoError]

(* An argument loop that tests for '#' after the escape was taken (an if   *)
(* in place of the else if): an escaped '#' starts a comment too.          *)
RECURSIVE ReadArgsHashAfterEscape(_, _, _, _)
ReadArgsHashAfterEscape(t, c, ln, args) ==
    IF c < Len(t) /\ At(t, c) # NL
    THEN IF At(t, c) = BS /\ c = Len(t) - 1
         THEN [args |-> args, cursor |-> c, line |-> ln,
               err |-> InvalidEscaping(ln)]
         ELSE LET c1 == IF At(t, c) = BS THEN c + 1 ELSE c
                  ln1 == IF At(t, c1) = NL THEN ln + 1 ELSE ln
              IN  IF At(t, c1) = HASH
                  THEN [args |-> args, cursor |-> SkipLine(t, c1),
                        line |-> ln, err |-> NoError]
                  ELSE ReadArgsHashAfterEscape(t, c1 + 1, ln1,
                                               Append(args, At(t, c1)))
    ELSE [args |-> args, cursor |-> c, line |-> ln, err |-> NoError]

(* An argument loop that appends an escaped newline without counting it. *)
RECURSIVE ReadArgsLineUncounted(_, _, _, _)
ReadArgsLineUncounted(t, c, ln, args) ==
    IF c < Len(t) /\ At(t, c) # NL
    THEN IF At(t, c) = BS /\ c = Len(t) - 1
         THEN [args |-> args, cursor |-> c, line |-> ln,
               err |-> InvalidEscaping(ln)]
         ELSE IF At(t, c) # BS /\ At(t, c) = HASH
         THEN [args |-> args, cursor |-> SkipLine(t, c), line |-> ln,
               err |-> NoError]
         ELSE LET c1 == IF At(t, c) = BS THEN c + 1 ELSE c
              IN  ReadArgsLineUncounted(t, c1 + 1, ln, Append(args, At(t, c1)))
    ELSE [args |-> args, cursor |-> c, line |-> ln, err |-> NoError]

(* The argument loop: reads args up to the first newline that is not       *)
(* escaped.  A backslash is skipped and the character after it appended    *)
(* as it is (c1 is the cursor after that skip); a backslash that ends the  *)
(* text is an error; a '#' that is not escaped skips the rest of the       *)
(* physical line and ends the loop; an appended newline counts a line.     *)
RECURSIVE ReadArgs(_, _, _, _)
ReadArgs(t, c, ln, args) ==
    IF c < Len(t) /\ At(t, c) # NL
    THEN IF At(t, c) = BS /\ c = Len(t) - 1
         THEN [args |-> args, cursor |-> c, line |-> ln,
               err |-> InvalidEscaping(ln)]
         ELSE IF At(t, c) # BS /\ At(t, c) = HASH
         THEN [args |-> args, cursor |-> SkipLine(t, c), line |-> ln,
               err |-> NoError]
         ELSE LET c1 == IF At(t, c) = BS THEN c + 1 ELSE c
                  ln1 == IF At(t, c1) = NL THEN ln + 1 ELSE ln
              IN  ReadArgs(t, c1 + 1, ln1, Append(args, At(t, c1)))
    ELSE [args |-> args, cursor |-> c, line |-> ln, err |-> NoError]

(* The end of an iteration without the test for an empty argument. *)
EndOfLineNoEmptyCheck(cmd, args, c, ln) ==
    LET trimmed == Trim(args)
        type == fromToken(cmd)
    IN  IF cmd # <<>> /\ trimmed # <<>> /\ type = NoType
        THEN [cmd |-> cmd, args |-> trimmed, cursor |-> c, line |-> ln,
              type |-> type, err |-> InvalidCommand(cmd, ln)]
        ELSE [cmd |-> cmd, args |-> trimmed, cursor |-> c, line |-> ln,
              type |-> type, err |-> NoError]

(* The end of an iteration: args is trimmed; a token without an argument   *)
(* is an error; a token with one is resolved, and it is an error if no     *)
(* variant has it.                                                         *)
EndOfLine(cmd, args, c, ln) ==
    LET trimmed == Trim(args)
        type == fromToken(cmd)
    IN  IF cmd # <<>> /\ trimmed = <<>>
        THEN [cmd |-> cmd, args |-> trimmed, cursor |-> c, line |-> ln,
              type |-> NoType, err |-> ExpectedOn(cmd, ln)]
        ELSE IF cmd # <<>> /\ trimmed # <<>> /\ type = NoType
        THEN [cmd |-> cmd, args |-> trimmed, cursor |-> c, line |-> ln,
              type |-> type, err |-> InvalidCommand(cmd, ln)]
        ELSE [cmd |-> cmd, args |-> trimmed, cursor |-> c, line |-> ln,
              type |-> type, err |-> NoError]

(* An iteration of the outer loop from the token on: c is the cursor after *)
(* the leading spaces, at a character that is neither a space nor a        *)
(* newline.  The outcome is the token, the trimmed argument, the type the  *)
(* token resolves to, the cursor and line counter at the end of the        *)
(* iteration or at the throw, and the error thrown, if any.                *)
ScanLine(t, c, ln) ==
    LET tok == ReadToken(t, c, <<>>, ln)
        c2 == SkipSpaces(t, tok.cursor)
        arg == ReadArgs(t, c2, ln, <<>>)
    IN  IF tok.err # NoError
        THEN [cmd |-> tok.cmd, args |-> <<>>, cursor |-> tok.cursor,
              line |-> ln, type |-> NoType, err |-> tok.err]
        ELSE IF tok.skip
        THEN EndOfLine(tok.cmd, <<>>, tok.cursor, ln)
        ELSE IF c2 >= Len(t) \/ At(t, c2) = NL
        THEN [cmd |-> tok.cmd, args |-> <<>>, cursor |-> c2, line |-> ln,
              type |-> NoType, err |-> ExpectedAt(tok.cmd, ln)]
        ELSE IF arg.err # NoError
        THEN [cmd |-> tok.cmd, args |-> arg.args, cursor |-> arg.cursor,
              line |-> arg.line, type |-> NoType, err |-> arg.err]
        ELSE EndOfLine(tok.cmd, arg.args, arg.cursor, arg.line)

---------------------------------------------------------------------------
(* result.filter(cmd => cmd.type === type).length *)
CountType(res, type) == Cardinality({i \in 1..Len(res) : res[i].type = type})

(* A validation that counts the origins before it looks at the first       *)
(* command.                                                                *)
DocumentErrorCountFirst(res) ==
    IF Len(res) > 0 /\ CountType(res, CommandTypeORIGIN) > 1
    THEN MultipleOrigins
    ELSE IF Len(res) > 0 /\ res[1].type # CommandTypeORIGIN
    THEN NoOrigin
    ELSE IF Len(res) > 0 /\ CountType(res, CommandTypeENTRYPOINT) > 1
    THEN MultipleOrigins
    ELSE NoError

(* A validation without the count of the entry points. *)
DocumentErrorNoEntrypoint(res) ==
    IF Len(res) > 0 /\ res[1].type # CommandTypeORIGIN
    THEN NoOrigin
    ELSE IF Len(res) > 0 /\ CountType(res, CommandTypeORIGIN) > 1
    THEN MultipleOrigins
    ELSE NoError

(* The document-level validation: the error it throws, or NoError.  The    *)
(* third check throws the message of the second.                           *)
DocumentError(res) ==
    IF Len(res) > 0 /\ res[1].type # CommandTypeORIGIN
    THEN NoOrigin
    ELSE IF Len(res) > 0 /\ CountType(res, CommandTypeORIGIN) > 1
    THEN MultipleOrigins
    ELSE IF Len(res) > 0 /\ CountType(res, CommandTypeENTRYPOINT) > 1
    THEN MultipleOrigins
    ELSE NoError

---------------------------------------------------------------------------
(* The input texts.  PieceTexts are all the texts of at most MaxPieces     *)
(* pieces, a piece being a character or a token; LineDocs are all the      *)
(* documents of at most MaxLines lines, a line being a token with an       *)
(* argument, a comment or a blank line; TokenDocs are an origin followed   *)
(* by one line of any token and any argument, with or without its newline; *)
(* Examples are documents of the specification.                            *)
MaxPieces == 4
MaxLines == 3

LowerFrom == <<"f", "r", "o", "m">>
MixedFrom == <<"F", "r", "o", "m">>

Pieces == {<<SP>>, <<NL>>, <<BS>>, <<HASH>>, <<TAB>>, <<"a">>, FROM}

Tokens ==
    {FROM, RUN, EXEC, COPY, WORKDIR, ENTRYPOINT, CMD, LowerFrom, MixedFrom,
     FROM \o <<TAB>>}

LineTokens == {FROM, RUN, CMD, ENTRYPOINT, LowerFrom}

LineArgs ==
    {<<"a", SP, HASH, SP, "c">>,
     <<"a", BS, HASH, "b">>,
     <<"a", SP, BS, NL, SP, "b">>}

Args ==
    LineArgs \cup
    {<<"a">>,
     <<BS, BS>>,
     <<"a", BS, BS, HASH, "b">>,
     <<BS, HASH, SP, HASH, BS, HASH>>,
     <<"a", BS, NL>>,
     <<TAB, "a", SP, "b", TAB, SP>>,
     <<TAB>>,
     <<HASH, "c">>}

Lines ==
    {tok \o <<SP, "a", NL>> : tok \in LineTokens}
        \cup {RUN \o <<SP>> \o arg \o <<NL>> : arg \in LineArgs}
        \cup {LowerFrom \o <<SP, HASH, NL>>, <<HASH, SP, "c", NL>>, <<NL>>}

RECURSIVE Concat(_, _)
Concat(ps, n) == IF n = 0 THEN <<>> ELSE Concat(ps, n - 1) \o ps[n]

PieceTexts ==
    {Concat(ps, Len(ps)) :
        ps \in UNION {[1..n -> Pieces] : n \in 0..MaxPieces}}

LineDocs ==
    {Concat(ls, Len(ls)) : ls \in UNION {[1..n -> Lines] : n \in 0..MaxLines}}

TokenDocs ==
    {FROM \o <<SP, "a", NL>> \o tok \o <<SP>> \o arg \o final :
        tok \in Tokens, arg \in Args, final \in {<<NL>>, <<>>}}

(* "FROM a\nCOPY x \\\ny\n" *)
ExampleContinuation ==
    FROM \o <<SP, "a", NL>> \o COPY \o <<SP, "x", SP, BS, NL, "y", NL>>

(* "FROM a\nRUN echo hi # note\n" *)
ExampleTrailingComment ==
    FROM \o <<SP, "a", NL>> \o RUN
        \o <<SP, "e", "c", "h", "o", SP, "h", "i", SP, HASH, SP,
             "n", "o", "t", "e", NL>>

(* "FROM a\nRUN echo hi\nEXEC  echo hi \nCMD echo hi\n" *)
EchoHi == <<"e", "c", "h", "o", SP, "h", "i">>

ExampleFingerprints ==
    FROM \o <<SP, "a", NL>> \o RUN \o <<SP>> \o EchoHi \o <<NL>>
        \o EXEC \o <<SP, SP>> \o EchoHi \o <<SP, NL>>
        \o CMD \o <<SP>> \o EchoHi \o <<NL>>

Examples == {ExampleContinuation, ExampleTrailingComment, ExampleFingerprints}

Inputs == PieceTexts \cup LineDocs \cup TokenDocs \cup Examples

---------------------------------------------------------------------------
(* The Enum module (src/src/enum.js).                                      *)
(*                                                                         *)
(* values and closed are plain objects indexed with a class, so the key of *)
(* an entry is the string the class converts to: its source text.  A and B *)
(* are two classes that extend Enum, declared with the same text (class    *)
(* Kind extends Enum {} in two modules of a program); a run that uses one  *)
(* of them only is a run of a program with one enumeration class.          *)
EnumTypes == {"A", "B"}

(* String(T), the property key of closed[T] and values[T]. *)
SourceText(T) ==
    CASE T \in {"A", "B"} -> "class Kind extends Enum {}"
      [] T = "CommandType" -> "class CommandType extends Enum { ... }"

(* T.name *)
ClassName(T) ==
    CASE T \in {"A", "B"} -> "Kind"
      [] T = "CommandType" -> "CommandType"

(* The names static properties are assigned under, none an integer index. *)
Keys == {"X", "Y"}

(* The names fromName is asked for: a key and a name that is no key. *)
Names == {"X", "Z"}

(* The number of variants a program constructs. *)
MaxVariants == 2

(* this.#name = null *)
Null == "null"

(* The result of Array.prototype.find when no item matches, as a variant. *)
NoVariant == 0

MsgCannotModify == "Enum type <name> cannot be modified anymore."
MsgUnclosed == "You cannot use unclosed enum <name>."

CannotModify(T) == [msg |-> MsgCannotModify, name |-> ClassName(T)]
Unclosed(T) == [msg |-> MsgUnclosed, name |-> ClassName(T)]

(* The outcome of a call: what it was called on and with, and the value it *)
(* returned or the error it threw.                                         *)
Returned(op, target, arg, value) ==
    [op |-> op, target |-> target, arg |-> arg, threw |-> FALSE,
     value |-> value]
Threw(op, target, arg, error) ==
    [op |-> op, target |-> target, arg |-> arg, threw |-> TRUE,
     value |-> error]

(* closed[T], read as a condition *)
IsClosed(T) ==
    SourceText(T) \in DOMAIN closed /\ closed[SourceText(T)]

(* values[T] || 0 *)
NextOrdinal(T) ==
    IF SourceText(T) \in DOMAIN values THEN values[SourceText(T)] ELSE 0

(* v instanceof T, for classes that extend Enum directly *)
InstanceOf(v, T) == v \in 1..Len(instances) /\ instances[v].type = T

(* Object.keys(T): the string keys in the order in which they were first   *)
(* assigned.                                                               *)
ObjectKeys(T) == [i \in 1..Len(statics[T]) |-> statics[T][i].key]

(* T[key], for a key of Object.keys(T) *)
Get(T, key) ==
    LET i == CHOOSE j \in 1..Len(statics[T]) : statics[T][j].key = key
    IN  statics[T][i].value

(* The least element of a non-empty set of integers. *)
Least(S) == CHOOSE i \in S : \A k \in S : i <= k

(* Enum.values: Object.keys(this).filter(key => this[key] instanceof this) *)
(*                 .map(key => this[key])                                  *)
EnumValues(T) ==
    LET keys == SelectSeq(ObjectKeys(T), LAMBDA k : InstanceOf(Get(T, k), T))
    IN  [i \in 1..Len(keys) |-> Get(T, keys[i])]

(* Object.keys(this.constructor).find(key => this.constructor[key]         *)
(*     instanceof this.constructor                                         *)
(*     && this.constructor[key].ord() === this.ord())                      *)
FindKey(v) ==
    LET T == instances[v].type
        keys == ObjectKeys(T)
        hits == {i \in 1..Len(keys) :
                    /\ InstanceOf(Get(T, keys[i]), T)
                    /\ instances[Get(T, keys[i])].ord = instances[v].ord}
    IN  IF hits = {} THEN Undefined ELSE keys[Least(hits)]

(* What name() returns on a variant of a closed class, and leaves in #name. *)
NameOf(v) ==
    IF instances[v].name = Null THEN FindKey(v) ELSE instances[v].name

(* A constructor that does not look at closed. *)
ConstructUnguarded(T) ==
    /\ Len(instances) < MaxVariants
    /\ values' = [k \in DOMAIN values \cup {SourceText(T)} |->
                    IF k = SourceText(T) THEN NextOrdinal(T) + 1
                    ELSE values[k]]
    /\ instances' = Append(instances,
                           [type |-> T, ord |-> NextOrdinal(T), name |-> Null])
    /\ ret' = Returned("new", T, "", Len(instances) + 1)
    /\ UNCHANGED <<closed, frozen, statics>>
    /\ UNCHANGED <<text, cursor, line, result, pc, err>>

(* new T(): the constructor of Enum. *)
Construct(T) ==
    /\ IF IsClosed(T)
       THEN /\ ret' = Threw("new", T, "", CannotModify(T))
            /\ UNCHANGED <<values, instances>>
       ELSE /\ Len(instances) < MaxVariants
            /\ values' = [k \in DOMAIN values \cup {SourceText(T)} |->
                            IF k = SourceText(T) THEN NextOrdinal(T) + 1
                            ELSE values[k]]
            /\ instances' =
                  Append(instances,
                         [type |-> T, ord |-> NextOrdinal(T), name |-> Null])
            /\ ret' = Returned("new", T, "", Len(instances) + 1)
    /\ UNCHANGED <<closed, frozen, statics>>
    /\ UNCHANGED <<text, cursor, line, result, pc, err>>

(* T[key] = v, for a variant v of T.  On a frozen class the assignment     *)
(* changes nothing: it throws a TypeError in strict code and is ignored    *)
(* elsewhere.                                                              *)
Assign(T, key, v) ==
    /\ InstanceOf(v, T)
    /\ IF T \in frozen
       THEN /\ \E strict \in BOOLEAN :
                 ret' = IF strict THEN Threw("set", T, key, [msg |-> "TypeError"])
                        ELSE Returned("set", T, key, v)
            /\ UNCHANGED statics
       ELSE /\ statics' =
                  [statics EXCEPT ![T] =
                      IF \E i \in 1..Len(@) : @[i].key = key
                      THEN [i \in 1..Len(@) |->
                              IF @[i].key = key
                              THEN [key |-> key, value |-> v] ELSE @[i]]
                      ELSE Append(@, [key |-> key, value |-> v])]
            /\ ret' = Returned("set", T, key, v)
    /\ UNCHANGED <<values, closed, frozen, instances>>
    /\ UNCHANGED <<text, cursor, line, result, pc, err>>

(* T.close() *)
CallClose(T) ==
    /\ closed' = [k \in DOMAIN closed \cup {SourceText(T)} |->
                    IF k = SourceText(T) THEN TRUE ELSE closed[k]]
    /\ frozen' = frozen \cup {T}
    /\ ret' = Returned("close", T, "", Undefined)
    /\ UNCHANGED <<values, statics, instances>>
    /\ UNCHANGED <<text, cursor, line, result, pc, err>>

(* v.ord() *)
CallOrd(v) ==
    /\ v \in 1..Len(instances)
    /\ ret' = IF ~IsClosed(instances[v].type)
              THEN Threw("ord", v, "", Unclosed(instances[v].type))
              ELSE Returned("ord", v, "", instances[v].ord)
    /\ UNCHANGED <<values, closed, frozen, statics, instances>>
    /\ UNCHANGED <<text, cursor, line, result, pc, err>>

(* v.name() *)
CallName(v) ==
    /\ v \in 1..Len(instances)
    /\ IF ~IsClosed(instances[v].type)
       THEN /\ ret' = Threw("name", v, "", Unclosed(instances[v].type))
            /\ UNCHANGED instances
       ELSE /\ instances' = [instances EXCEPT ![v].name = NameOf(v)]
            /\ ret' = Returned("name", v, "", NameOf(v))
    /\ UNCHANGED <<values, closed, frozen, statics>>
    /\ UNCHANGED <<text, cursor, line, result, pc, err>>

(* T.values() *)
CallValues(T) ==
    /\ ret' = Returned("values", T, "", EnumValues(T))
    /\ UNCHANGED <<values, closed, frozen, statics, instances>>
    /\ UNCHANGED <<text, cursor, line, result, pc, err>>

(* T.fromName(name): find calls name() on the items of values() in order   *)
(* and stops at the first whose name is the one asked for; each call of    *)
(* name() throws on an unclosed class and caches the name otherwise.       *)
CallFromName(T, name) ==
    LET items == EnumValues(T)
        hits == {i \in 1..Len(items) : NameOf(items[i]) = name}
        last == IF hits = {} THEN Len(items) ELSE Least(hits)
        called == {items[i] : i \in 1..last}
    IN  /\ IF items # <<>> /\ ~IsClosed(T)
           THEN /\ ret' = Threw("fromName", T, name, Unclosed(T))
                /\ UNCHANGED instances
           ELSE /\ instances' =
                      [v \in 1..Len(instances) |->
                          IF v \in called
                          THEN [instances[v] EXCEPT !.name = NameOf(v)]
                          ELSE instances[v]]
                /\ ret' = Returned("fromName", T, name,
                                   IF hits = {} THEN NoVariant
                                   ELSE items[Least(hits)])
        /\ UNCHANGED <<values, closed, frozen, statics>>
        /\ UNCHANGED <<text, cursor, line, result, pc, err>>

(* The module as loaded: empty registries, two classes with no static      *)
(* property, no variant, no parse.                                         *)
InitEnum ==
    /\ values = [k \in {} |-> 0]
    /\ closed = [k \in {} |-> TRUE]
    /\ frozen = {}
    /\ statics = [T \in EnumTypes |-> <<>>]
    /\ instances = <<>>
    /\ ret = Returned("require", "Enum", "", Undefined)
    /\ text = <<>>
    /\ cursor = 0
    /\ line = 1
    /\ result = <<>>
    /\ pc = "idle"
    /\ err = NoError

NextEnum ==
    \/ \E T \in EnumTypes : Construct(T)
    \/ \E T \in EnumTypes, key \in Keys, v \in 1..MaxVariants :
          Assign(T, key, v)
    \/ \E T \in EnumTypes : CallClose(T)
    \/ \E v \in 1..MaxVariants : CallOrd(v)
    \/ \E v \in 1..MaxVariants : CallName(v)
    \/ \E T \in EnumTypes : CallValues(T)
    \/ \E T \in EnumTypes, name \in Names : CallFromName(T, name)

SpecEnum == InitEnum /\ [][NextEnum]_vars

(* The Enum state a parse runs in: parser.js:42-68 has constructed the     *)
(* five variants of CommandType, bound each under its name and closed the  *)
(* class.                                                                  *)
CommandTypeNames == <<"ORIGIN", "RUN", "COPY", "WORKDIR", "ENTRYPOINT">>

CommandTypeClosed ==
    /\ values = [k \in {SourceText("CommandType")} |-> Len(CommandTypeNames)]
    /\ closed = [k \in {SourceText("CommandType")} |-> TRUE]
    /\ frozen = {"CommandType"}
    /\ statics = [T \in {"CommandType"} |->
                    [i \in 1..Len(CommandTypeNames) |->
                        [key |-> CommandTypeNames[i], value |-> i]]]
    /\ instances = [i \in 1..Len(CommandTypeNames) |->
                      [type |-> "CommandType", ord |-> i - 1, name |-> Null]]
    /\ ret = Returned("close", "CommandType", "", Undefined)

---------------------------------------------------------------------------
(* parse(text): the state before the first iteration. *)
Init ==
    /\ CommandTypeClosed
    /\ text \in Inputs
    /\ cursor = 0
    /\ line = 1
    /\ result = <<>>
    /\ pc = "scan"
    /\ err = NoError

(* The cursor after the leading spaces of the iteration. *)
Lead == SkipSpaces(text, cursor)

(* The iteration goes on to read a token. *)
AtToken ==
    /\ pc = "scan"
    /\ cursor < Len(text)
    /\ Lead < Len(text)
    /\ At(text, Lead) # NL

(* The loop condition fails: the scan is over. *)
LoopExit ==
    /\ pc = "scan"
    /\ cursor >= Len(text)
    /\ pc' = "validate"
    /\ UNCHANGED <<text, cursor, line, result, err>>
    /\ UNCHANGED enumVars

(* A blank line: the newline after the leading spaces is consumed. *)
BlankLine ==
    /\ pc = "scan"
    /\ cursor < Len(text)
    /\ At(text, Lead) = NL
    /\ line' = line + 1
    /\ cursor' = Lead + 1
    /\ UNCHANGED <<text, result, pc, err>>
    /\ UNCHANGED enumVars

(* The text ends after the leading spaces: break. *)
Break ==
    /\ pc = "scan"
    /\ cursor < Len(text)
    /\ At(text, Lead) # NL
    /\ Lead >= Len(text)
    /\ cursor' = Lead
    /\ pc' = "validate"
    /\ UNCHANGED <<text, line, result, err>>
    /\ UNCHANGED enumVars

(* A comment line: no token, nothing pushed. *)
CommentLine ==
    /\ AtToken
    /\ LET o == ScanLine(text, Lead, line)
       IN  /\ o.err = NoError
           /\ o.cmd = <<>>
           /\ cursor' = o.cursor
           /\ line' = o.line
    /\ UNCHANGED <<text, result, pc, err>>
    /\ UNCHANGED enumVars

(* A push that puts the command in front of those already there. *)
PushFront(res, command) == <<command>> \o res

(* result.push(command) *)
Push(res, command) == Append(res, command)

(* An iteration that validates as it goes: it throws the document-level    *)
(* error of the commands pushed so far as soon as there is one.            *)
CommandLineEager ==
    /\ AtToken
    /\ LET o == ScanLine(text, Lead, line)
           pushed == Push(result, Command(o.type, o.args))
       IN  /\ o.err = NoError
           /\ o.cmd # <<>>
           /\ cursor' = o.cursor
           /\ line' = o.line
           /\ result' = pushed
           /\ err' = DocumentError(pushed)
           /\ pc' = IF DocumentError(pushed) = NoError THEN pc ELSE "error"
    /\ UNCHANGED text
    /\ UNCHANGED enumVars

(* A token and an argument: the command is pushed. *)
CommandLine ==
    /\ AtToken
    /\ LET o == ScanLine(text, Lead, line)
       IN  /\ o.err = NoError
           /\ o.cmd # <<>>
           /\ cursor' = o.cursor
           /\ line' = o.line
           /\ result' = Push(result, Command(o.type, o.args))
    /\ UNCHANGED <<text, pc, err>>
    /\ UNCHANGED enumVars

(* The iteration throws: the parse ends with the error. *)
ThrowInLine ==
    /\ AtToken
    /\ LET o == ScanLine(text, Lead, line)
       IN  /\ o.err # NoError
           /\ cursor' = o.cursor
           /\ line' = o.line
           /\ err' = o.err
    /\ pc' = "error"
    /\ UNCHANGED <<text, result>>
    /\ UNCHANGED enumVars

(* The validation passes: result is returned. *)
Return ==
    /\ pc = "validate"
    /\ DocumentError(result) = NoError
    /\ pc' = "done"
    /\ UNCHANGED <<text, cursor, line, result, err>>
    /\ UNCHANGED enumVars

(* The validation throws. *)
ThrowInValidation ==
    /\ pc = "validate"
    /\ DocumentError(result) # NoError
    /\ err' = DocumentError(result)
    /\ pc' = "error"
    /\ UNCHANGED <<text, cursor, line, result>>
    /\ UNCHANGED enumVars

Next ==
    \/ LoopExit
    \/ BlankLine
    \/ Break
    \/ CommentLine
    \/ CommandLine
    \/ ThrowInLine
    \/ Return
    \/ ThrowInValidation

Spec == Init /\ [][Next]_vars

TypeOK ==
    /\ cursor \in 0..Len(text)
    /\ line \in 1..(Len(text) + 1)
    /\ pc \in {"scan", "validate", "done", "error"}
    /\ (pc = "error") = (err # NoError)
    /\ \A i \in 1..Len(result) : result[i].type \in
          {CommandTypeValues[k] : k \in 1..Len(CommandTypeValues)}

---------------------------------------------------------------------------
(* What the claims say of a text, stated on the text itself.               *)

(* The parse has ended. *)
Ended == pc \in {"done", "error"}

(* The error, if any, is one of the validation: the scan met none. *)
ScannedClean == err.msg \in {"none", MsgNoOrigin, MsgMultipleOrigins}

MissingArgumentMsgs == {MsgExpectedOn, MsgExpectedAt}

(* The number of newlines among the first c characters of t. *)
CountNL(t, c) == Cardinality({i \in 1..c : t[i] = NL})

(* The end of the token that starts at c: the first space, newline or '#'  *)
(* at or after c, or the end of the text.                                  *)
RECURSIVE TokenEnd(_, _)
TokenEnd(t, c) ==
    IF c < Len(t) /\ At(t, c) \notin {SP, NL, HASH}
    THEN TokenEnd(t, c + 1)
    ELSE c

TokenAt(t, c) == SubSeq(t, c + 1, TokenEnd(t, c))

(* Where the argument of the line whose token starts at c begins. *)
ArgStart(t, c) == SkipSpaces(t, TokenEnd(t, c))

(* The argument that begins at i: the characters up to the first '#' or    *)
(* newline that no backslash escapes, without the escaping backslashes.    *)
RECURSIVE ArgumentOf(_, _)
ArgumentOf(t, i) ==
    IF i >= Len(t) \/ At(t, i) \in {NL, HASH} THEN <<>>
    ELSE IF At(t, i) = BS
    THEN IF i + 1 >= Len(t) THEN <<>>
         ELSE <<At(t, i + 1)>> \o ArgumentOf(t, i + 2)
    ELSE <<At(t, i)>> \o ArgumentOf(t, i + 1)

(* The argument that begins at i runs into a backslash that ends the text. *)
RECURSIVE Dangling(_, _)
Dangling(t, i) ==
    /\ i < Len(t)
    /\ At(t, i) \notin {NL, HASH}
    /\ IF At(t, i) = BS
       THEN i = Len(t) - 1 \/ Dangling(t, i + 2)
       ELSE Dangling(t, i + 1)

(* The line whose token starts at c has a token, a space after it and an   *)
(* argument after the spaces.                                              *)
HasArgumentText(t, c) ==
    /\ TokenEnd(t, c) > c
    /\ At(t, TokenEnd(t, c)) = SP
    /\ ArgStart(t, c) < Len(t)
    /\ At(t, ArgStart(t, c)) # NL

(* The line has a token and an argument that is not empty once trimmed. *)
TokenWithArgument(t, c) ==
    /\ HasArgumentText(t, c)
    /\ ~Dangling(t, ArgStart(t, c))
    /\ Trim(ArgumentOf(t, ArgStart(t, c))) # <<>>

(* The line has a token and after it a newline, the end of the text, only  *)
(* spaces, a comment, or an argument that is empty once trimmed.           *)
TokenWithoutArgument(t, c) ==
    /\ TokenEnd(t, c) > c
    /\ \/ ~HasArgumentText(t, c)
       \/ /\ ~Dangling(t, ArgStart(t, c))
          /\ Trim(ArgumentOf(t, ArgStart(t, c))) = <<>>

(* The last character of t is a backslash and the run of backslashes that  *)
(* ends t is of odd length.                                                *)
RECURSIVE TrailingBackslashes(_)
TrailingBackslashes(t) ==
    IF t # <<>> /\ t[Len(t)] = BS
    THEN 1 + TrailingBackslashes(SubSeq(t, 1, Len(t) - 1))
    ELSE 0

EndsWithUnescapedBackslash(t) == TrailingBackslashes(t) % 2 = 1

(* Every physical line of t is empty, holds only spaces, or has '#' as its *)
(* first character after the spaces.                                       *)
BlankOrCommentOnly(t) ==
    \A i \in 0..Len(t) :
        (i = 0 \/ t[i] = NL) =>
            (SkipSpaces(t, i) >= Len(t) \/ At(t, SkipSpaces(t, i)) \in {NL, HASH})

(* The kind each token stands for. *)
ExpectedKind(tok) ==
    CASE tok = FROM -> "ORIGIN"
      [] tok \in {RUN, EXEC} -> "RUN"
      [] tok = COPY -> "COPY"
      [] tok = WORKDIR -> "WORKDIR"
      [] tok \in {ENTRYPOINT, CMD} -> "ENTRYPOINT"
      [] OTHER -> "undefined"

---------------------------------------------------------------------------
(* C1: whenever parse returns a non-empty sequence, its first command is   *)
(* of kind ORIGIN, exactly one command is of kind ORIGIN and at most one   *)
(* is of kind ENTRYPOINT.                                                  *)
C1_ReturnedSequenceShape ==
    (pc = "done" /\ result # <<>>) =>
        /\ result[1].type = CommandTypeORIGIN
        /\ CountType(result, CommandTypeORIGIN) = 1
        /\ CountType(result, CommandTypeENTRYPOINT) <= 1

C1_Witness ==
    /\ pc = "done"
    /\ Len(result) >= 3
    /\ CountType(result, CommandTypeENTRYPOINT) = 1

---------------------------------------------------------------------------
(* C2, as stated: parsing "FROM a\nCOPY x \\\ny\n" succeeds, the value of  *)
(* the COPY command is "x y", without a newline, and the line counter      *)
(* advances by one during the continuation.                                *)
C2_ContinuationJoinsLines ==
    (text = ExampleContinuation /\ Ended) =>
        /\ pc = "done"
        /\ Len(result) = 2
        /\ result[2].type = CommandTypeCOPY
        /\ result[2].value = <<"x", SP, "y">>

(* C2, amended: parsing "FROM a\nCOPY x \\\ny\n" succeeds and the value of *)
(* the COPY command is "x \ny": the escaped newline is appended to the     *)
(* argument as a newline character and only the backslash is dropped.  The *)
(* line counter is 2 when the COPY line begins and 3 when its command has  *)
(* been pushed: it advances by one during the continuation.                *)
C2_ContinuationKeepsNewline ==
    text = ExampleContinuation =>
        /\ pc # "error"
        /\ Len(result) <= 2
        /\ pc = "done" => Len(result) = 2
        /\ (Len(result) = 1 /\ cursor = 7) => line = 2
        /\ Len(result) = 2 =>
              /\ result[1].type = CommandTypeORIGIN
              /\ result[1].value = <<"a">>
              /\ result[2].type = CommandTypeCOPY
              /\ result[2].value = <<"x", SP, NL, "y">>
              /\ cursor = Len(text) - 1 => line = 3

C2_Witness ==
    /\ text = ExampleContinuation
    /\ pc = "done"
    /\ Len(result) = 2
    /\ NL \in {result[2].value[i] : i \in 1..Len(result[2].value)}

---------------------------------------------------------------------------
(* C3, as stated: every input whose last character is a backslash that is  *)
(* not itself escaped makes parse fail with the invalid-escaping error; no *)
(* such input returns a sequence or fails with another error.              *)
C3_TrailingBackslashAlwaysFails ==
    (Ended /\ EndsWithUnescapedBackslash(text)) =>
        (pc = "error" /\ err.msg = MsgInvalidEscaping)

(* C3, amended: when the scan is at a line that has a token, spaces and an *)
(* argument, and that argument runs, outside any comment, into an          *)
(* unescaped backslash that is the last character of the input, parse      *)
(* fails with the invalid-escaping error, which carries the line counter   *)
(* at that point (the line of the token plus the escaped newlines of the   *)
(* argument).  A trailing backslash in a token or in a comment does not.   *)
C3_TrailingBackslashInArgument ==
    [][(AtToken /\ HasArgumentText(text, Lead)
           /\ Dangling(text, ArgStart(text, Lead))) =>
          /\ pc' = "error"
          /\ err'.msg = MsgInvalidEscaping
          /\ err'.line = 1 + CountNL(text, Len(text))
          /\ err'.line = line + (CountNL(text, Len(text)) - CountNL(text, Lead))
          /\ cursor' = Len(text) - 1
          /\ result' = result]_vars

C3_Witness ==
    /\ pc = "error"
    /\ err.msg = MsgInvalidEscaping
    /\ err.line >= 2
    /\ cursor = Len(text) - 1

---------------------------------------------------------------------------
(* C4: a line that has a token, recognised or not, followed by a newline,  *)
(* by the end of the input, by spaces only, or by an argument that is      *)
(* empty once trimmed makes parse fail with the missing-argument error,    *)
(* which names that token.                                                 *)
C4_TokenWithoutArgumentFails ==
    [][(AtToken /\ TokenWithoutArgument(text, Lead)) =>
          /\ pc' = "error"
          /\ err'.msg \in MissingArgumentMsgs
          /\ err'.cmd = TokenAt(text, Lead)
          /\ result' = result]_vars

C4_Witness ==
    /\ pc = "error"
    /\ err = ExpectedOn(LowerFrom, 2)
    /\ Len(result) = 1

---------------------------------------------------------------------------
(* C5: a document that scans without lexical error and yields a command    *)
(* fails with the no-origin error when its first command is not of kind    *)
(* ORIGIN, whatever the number of origins, and with the multiple-origins   *)
(* error when its first command is of kind ORIGIN and a later one too.     *)
C5_OriginChecks ==
    (Ended /\ ScannedClean /\ result # <<>>) =>
        /\ result[1].type # CommandTypeORIGIN =>
              (pc = "error" /\ err = NoOrigin)
        /\ (result[1].type = CommandTypeORIGIN
              /\ CountType(result, CommandTypeORIGIN) > 1) =>
              (pc = "error" /\ err = MultipleOrigins)

C5_Witness ==
    /\ pc = "error"
    /\ err = NoOrigin
    /\ CountType(result, CommandTypeORIGIN) > 1

---------------------------------------------------------------------------
(* C6: a document that scans without lexical error and has one ORIGIN      *)
(* command, in first position, and two or more ENTRYPOINT commands fails,  *)
(* with an error that is not the one raised for two ORIGIN commands.       *)
C6_MultipleEntrypointDistinct ==
    (Ended /\ ScannedClean /\ result # <<>>
        /\ result[1].type = CommandTypeORIGIN
        /\ CountType(result, CommandTypeORIGIN) = 1
        /\ CountType(result, CommandTypeENTRYPOINT) >= 2) =>
        (pc = "error" /\ err # MultipleOrigins)

---------------------------------------------------------------------------
(* C7: a line with a token and an argument that is not empty once trimmed  *)
(* pushes a command of the kind the token stands for when the token is,    *)
(* character for character, one of FROM, RUN, EXEC, COPY, WORKDIR,         *)
(* ENTRYPOINT and CMD, and otherwise (another case, a character more)      *)
(* makes parse fail with the invalid-command error, which names the token. *)
C7_TokenResolution ==
    [][(AtToken /\ TokenWithArgument(text, Lead)) =>
          LET tok == TokenAt(text, Lead)
          IN  IF ExpectedKind(tok) = "undefined"
              THEN /\ pc' = "error"
                   /\ err'.msg = MsgInvalidCommand
                   /\ err'.cmd = tok
                   /\ result' = result
              ELSE /\ pc' = "scan"
                   /\ Len(result') = Len(result) + 1
                   /\ SubSeq(result', 1, Len(result)) = result
                   /\ result'[Len(result')].type.name = ExpectedKind(tok)
                   /\ result'[Len(result')].type.tokens # <<>>]_vars

C7_Witness ==
    /\ pc = "error"
    /\ err.msg = MsgInvalidCommand
    /\ err.cmd = LowerFrom
    /\ Len(result) = 2

---------------------------------------------------------------------------
(* C8, as stated: every error of parse carries the 1-based number of the   *)
(* line where it was detected, but for the multiple-origins and            *)
(* multiple-entrypoints errors; the no-origin error carries one too.       *)
C8_AllButCountErrorsCarryLine ==
    (pc = "error" /\ err # MultipleOrigins) =>
        ("line" \in DOMAIN err /\ err.line >= 1)

(* C8, amended: every lexical error (missing argument, invalid escaping,   *)
(* invalid command) carries the 1-based number of the line where it was    *)
(* detected, one more than the number of newlines before the cursor; the   *)
(* three errors of the validation (no origin, multiple origins, multiple   *)
(* entry points) carry no line number.                                     *)
C8_LexicalErrorsCarryLine ==
    pc = "error" =>
        IF err.msg \in MissingArgumentMsgs \cup {MsgInvalidEscaping, MsgInvalidCommand}
        THEN /\ "line" \in DOMAIN err
             /\ err.line >= 1
             /\ err.line = 1 + CountNL(text, cursor)
        ELSE /\ err \in {NoOrigin, MultipleOrigins}
             /\ "line" \notin DOMAIN err

C8_Witness ==
    /\ pc = "error"
    /\ err.msg = MsgInvalidCommand
    /\ err.line = 3
    /\ CountNL(text, Len(text)) > 3

---------------------------------------------------------------------------
(* C9: the value of a pushed command is the trimmed text of its argument   *)
(* up to the first '#' that no backslash escapes, the rest of the physical *)
(* line being skipped; a '#' or a backslash that follows an escaping       *)
(* backslash is part of the value and the escaping backslash is not.       *)
ExpectedValue(arg) ==
    CASE arg = <<"a">> -> <<"a">>
      [] arg = <<"a", SP, HASH, SP, "c">> -> <<"a">>
      [] arg = <<"a", BS, HASH, "b">> -> <<"a", HASH, "b">>
      [] arg = <<"a", SP, BS, NL, SP, "b">> -> <<"a", SP, NL, SP, "b">>
      [] arg = <<BS, BS>> -> <<BS>>
      [] arg = <<"a", BS, BS, HASH, "b">> -> <<"a", BS>>
      [] arg = <<BS, HASH, SP, HASH, BS, HASH>> -> <<HASH>>
      [] arg = <<"a", BS, NL>> -> <<"a">>
      [] arg = <<TAB, "a", SP, "b", TAB, SP>> -> <<"a", SP, "b">>
      [] OTHER -> <<>>

C9_TrailingCommentAndEscapes ==
    [][/\ (AtToken /\ TokenWithArgument(text, Lead)
              /\ fromToken(TokenAt(text, Lead)) # NoType) =>
              /\ Len(result') = Len(result) + 1
              /\ result'[Len(result')].value =
                     Trim(ArgumentOf(text, ArgStart(text, Lead)))
              /\ cursor' >= Len(text) \/ At(text, cursor') = NL
              /\ line' = line + (CountNL(text, cursor') - CountNL(text, Lead))
       /\ \A arg \in Args, final \in {<<NL>>, <<>>} :
              (/\ text = FROM \o <<SP, "a", NL>> \o RUN \o <<SP>> \o arg \o final
               /\ pc' = "done"
               /\ ExpectedValue(arg) # <<>>) =>
                  (Len(result') = 2 /\ result'[2].value = ExpectedValue(arg))
       /\ (text = ExampleTrailingComment /\ pc' = "done") =>
              /\ Len(result') = 2
              /\ result'[2].value = <<"e", "c", "h", "o", SP, "h", "i">>]_vars

C9_Witness ==
    /\ pc = "done"
    /\ Len(result) = 2
    /\ result[2].value = <<HASH>>
    /\ Cardinality({i \in 1..Len(text) : text[i] = HASH}) = 3

---------------------------------------------------------------------------
(* C10: an input all of whose lines are empty, hold only spaces or have    *)
(* '#' as their first character after the spaces, with or without a final  *)
(* newline, makes parse return the empty sequence: no step of its parse    *)
(* pushes a command or throws, and the scan goes on to the end of the text.*)
C10_BlankAndCommentOnly ==
    BlankOrCommentOnly(text) =>
        /\ pc # "error"
        /\ result = <<>>
        /\ pc \in {"validate", "done"} => cursor = Len(text)
        /\ line = 1 + CountNL(text, cursor)

C10_Witness ==
    /\ pc = "done"
    /\ BlankOrCommentOnly(text)
    /\ result = <<>>
    /\ Len(text) >= 4
    /\ text[Len(text)] # NL
    /\ Cardinality({i \in 1..Len(text) : text[i] = HASH}) >= 1
    /\ line >= 2

---------------------------------------------------------------------------
(* The fold C11 names: h0 = 31 * ordinal, h(i+1) = 31 * h(i) + code(c_i)   *)
(* reduced to a signed 32-bit integer.                                     *)
Wrap31(h, code) ==
    LET lo == 31 * Lo(h) + code
    IN  ToInt32((31 * Hi(h) + lo \div Half) % Half, lo % Half)

RECURSIVE ReferenceFold(_, _)
ReferenceFold(ordinal, value) ==
    IF value = <<>> THEN 31 * ordinal
    ELSE Wrap31(ReferenceFold(ordinal, SubSeq(value, 1, Len(value) - 1)),
                charCodeAt(value[Len(value)]))

(* C11: the fingerprint of every command is the reference fold of its      *)
(* kind's ordinal and its trimmed value, h0 = 31 * ordinal and h(i+1) =    *)
(* 31 * h(i) + code(c_i) wrapped to a signed 32-bit integer, so it lies in *)
(* [-2^31, 2^31 - 1] and wraps on overflow; two commands of equal kind and *)
(* equal trimmed value, such as one written RUN and one written EXEC, have *)
(* equal fingerprints.  For "echo hi" the fold is 569777117 under RUN and  *)
(* -557618976 under ENTRYPOINT.                                            *)
C11_FingerprintIsReferenceFold ==
    /\ \A i \in 1..Len(result) :
          /\ result[i].hash = ReferenceFold(result[i].type.ord, result[i].value)
          /\ result[i].hash >= -2147483647 - 1
          /\ result[i].hash <= 2147483647
          /\ \A j \in 1..Len(result) :
                (result[i].type.ord = result[j].type.ord
                    /\ result[i].value = result[j].value)
                        => result[i].hash = result[j].hash
    /\ (text = ExampleFingerprints /\ Len(result) = 4) =>
          /\ result[1].hash = 97
          /\ result[2].hash = 569777117
          /\ result[3].hash = 569777117
          /\ result[4].hash = -557618976

C11_Witness ==
    /\ text = ExampleFingerprints
    /\ pc = "done"
    /\ result[2].type = CommandTypeRUN
    /\ result[3].type = CommandTypeRUN
    /\ result[2].value = EchoHi
    /\ result[3].value = EchoHi
    /\ result[2].hash = result[3].hash
    /\ result[4].hash < 0

---------------------------------------------------------------------------
(* C12: every command parse has pushed, and so every command of a returned *)
(* sequence, has a value that is not empty and neither begins nor ends     *)
(* with a whitespace character: no Command is ever constructed with an     *)
(* empty trimmed value.                                                    *)
C12_ValuesTrimmedNonEmpty ==
    \A i \in 1..Len(result) :
        /\ result[i].value # <<>>
        /\ result[i].value[1] \notin WhiteSpace
        /\ result[i].value[Len(result[i].value)] \notin WhiteSpace

(* A returned command whose argument was written with whitespace at both   *)
(* ends, a tab among it.                                                   *)
C12_Witness ==
    /\ pc = "done"
    /\ Len(result) = 2
    /\ result[2].value = <<"a", SP, "b">>
    /\ \E i \in 1..(Len(text) - 6) :
          SubSeq(text, i, i + 6) = <<SP, TAB, "a", SP, "b", TAB, SP>>

---------------------------------------------------------------------------
(* Where the logical line whose argument is being read at i ends: at the   *)
(* first newline no backslash escapes, at the newline that ends a trailing *)
(* comment, or at the end of the text.                                     *)
RECURSIVE LogicalLineEnd(_, _)
LogicalLineEnd(t, i) ==
    IF i >= Len(t) \/ At(t, i) = NL THEN i
    ELSE IF At(t, i) = HASH THEN
        IF \E k \in i..(Len(t) - 1) : At(t, k) = NL
        THEN CHOOSE k \in i..(Len(t) - 1) :
                 At(t, k) = NL /\ \A m \in i..(k - 1) : At(t, m) # NL
        ELSE Len(t)
    ELSE IF At(t, i) = BS THEN LogicalLineEnd(t, i + 2)
    ELSE LogicalLineEnd(t, i + 1)

(* The commands of the logical lines of t from c on, in document order:    *)
(* blank lines and comment lines give none, every other logical line, its  *)
(* escaped continuations included, gives the one command of its token and  *)
(* its argument.                                                           *)
RECURSIVE LogicalCommands(_, _)
LogicalCommands(t, c) ==
    LET s == SkipSpaces(t, c)
    IN  IF s >= Len(t) THEN <<>>
        ELSE IF At(t, s) = NL THEN LogicalCommands(t, s + 1)
        ELSE IF At(t, s) = HASH
        THEN LogicalCommands(t, LogicalLineEnd(t, s))
        ELSE <<[kind |-> ExpectedKind(TokenAt(t, s)),
                value |-> Trim(ArgumentOf(t, ArgStart(t, s)))]>>
                \o LogicalCommands(t, LogicalLineEnd(t, ArgStart(t, s)))

(* C13: the commands pushed so far are, in order, those of the non-comment *)
(* logical lines of the text read so far: the i-th command comes from the  *)
(* i-th such line, each such line gives exactly one command, and blank     *)
(* lines and comment lines give none; so a returned sequence lists the     *)
(* commands of the whole document in document order.                       *)
C13_DocumentOrder ==
    pc # "error" =>
        LET lines == LogicalCommands(SubSeq(text, 1, cursor), 0)
        IN  /\ Len(result) = Len(lines)
            /\ \A i \in 1..Len(result) :
                  /\ result[i].type.name = lines[i].kind
                  /\ result[i].value = lines[i].value
            /\ pc = "done" => cursor = Len(text)

(* A comment line between two commands, the second with a continuation. *)
C13_Witness ==
    /\ pc = "done"
    /\ text = FROM \o <<SP, "a", NL, HASH, SP, "c", NL>> \o RUN
                \o <<SP, "a", SP, BS, NL, SP, "b", NL>>
    /\ Len(result) = 2
    /\ result[1].type = CommandTypeORIGIN
    /\ result[2].type = CommandTypeRUN
    /\ result[2].value = <<"a", SP, NL, SP, "b">>

---------------------------------------------------------------------------
(* C20: at every point where parse appends a command or raises an error    *)
(* with a line number, and between the iterations of the scan, the line    *)
(* counter is one more than the number of newline characters strictly      *)
(* before the cursor, and the number an error reports is that counter:     *)
(* each newline the scan passes, be it a blank line, the end of a line or  *)
(* an escaped newline inside an argument, is counted exactly once.         *)
C20_LineCounter ==
    /\ line = 1 + CountNL(text, cursor)
    /\ (pc = "error" /\ ~ScannedClean) => err.line = line

(* A command appended after a blank line and an escaped newline. *)
C20_Witness ==
    /\ pc = "scan"
    /\ text # <<>>
    /\ text[1] = NL
    /\ Len(result) = 1
    /\ NL \in {result[1].value[i] : i \in 1..Len(result[1].value)}
    /\ line = 3
    /\ cursor < Len(text)

---------------------------------------------------------------------------
(* The stages of the iteration that starts at a token, in the order the    *)
(* cursor passes them: the leading spaces, the token loop, the spaces      *)
(* after the token, the argument loop.                                     *)
StagesForward ==
    AtToken =>
        LET tok == ReadToken(text, Lead, <<>>, line)
            c2 == SkipSpaces(text, tok.cursor)
            arg == ReadArgs(text, c2, line, <<>>)
            o == ScanLine(text, Lead, line)
        IN  /\ cursor <= Lead
            /\ Lead < tok.cursor
            /\ tok.cursor <= c2
            /\ c2 <= Len(text)
            /\ (c2 < Len(text) => c2 <= arg.cursor /\ arg.cursor <= Len(text))
            /\ o.cursor \in {tok.cursor, c2, arg.cursor}
            /\ o.cursor <= Len(text)

(* The parse has ended or has a step to take that changes its state: it    *)
(* leaves the loop, passes a blank line or validates; or it is at a token, *)
(* where the iteration (one of CommentLine, CommandLine and ThrowInLine,   *)
(* by the outcome of ScanLine) throws or ends with the cursor further on.  *)
NeverStuck ==
    \/ Ended
    \/ ENABLED <<LoopExit \/ BlankLine \/ Break \/ Return
                    \/ ThrowInValidation>>_vars
    \/ /\ AtToken
       /\ LET o == ScanLine(text, Lead, line)
          IN  o.err # NoError \/ cursor < o.cursor

(* A step of the parse: the cursor does not move back nor past the end of  *)
(* the text; an iteration of the outer loop throws or moves it forward;    *)
(* with the cursor at the end of the text the loop is left, and it is left *)
(* nowhere else; the validation is one step that ends the parse.           *)
Advance ==
    /\ text' = text
    /\ cursor <= cursor'
    /\ cursor' <= Len(text)
    /\ (pc = "scan" /\ cursor < Len(text)) =>
           (pc' = "error" \/ cursor < cursor')
    /\ (pc = "scan" /\ cursor >= Len(text)) => pc' = "validate"
    /\ pc' = "validate" => cursor' = Len(text)
    /\ pc = "validate" => (pc' \in {"done", "error"} /\ cursor' = cursor)

(* C21: parse terminates on every input: the cursor never decreases, each  *)
(* iteration of the outer loop raises an error or moves the cursor forward *)
(* by at least one character, the stages of an iteration only move it      *)
(* forward (no character is passed twice), the scan is over once the       *)
(* cursor is at the length of the text, and until parse has returned or    *)
(* thrown there is always a step that changes the state, so that a parse   *)
(* takes at most Len(text) iterations and one validation.                  *)
C21_ScanAdvancesAndEnds ==
    /\ [](NeverStuck /\ StagesForward)
    /\ [][Advance]_vars

(* A parse that returned with the cursor at the end of the text after      *)
(* iterations over a comment line, the newlines that end the lines, and    *)
(* command lines, one with a continuation.                                 *)
C21_Witness ==
    /\ pc = "done"
    /\ cursor = Len(text)
    /\ Len(result) >= 2
    /\ \E i \in 1..Len(text) : text[i] = HASH
    /\ \E i \in 1..(Len(text) - 1) : text[i] = BS /\ text[i + 1] = NL

---------------------------------------------------------------------------
(* The kind of an error of the scan; "none" for no error and for the       *)
(* errors of the validation.                                               *)
LexicalKind(e) ==
    CASE e.msg \in MissingArgumentMsgs -> "MissingArgument"
      [] e.msg = MsgInvalidEscaping -> "UnterminatedEscape"
      [] e.msg = MsgInvalidCommand -> "UnknownCommand"
      [] OTHER -> "none"

(* The first logical line of t, from c on, that is lexically wrong, read   *)
(* off the text: where its token starts (at) and what is wrong with it: a  *)
(* token without an argument, an argument that runs into a backslash at    *)
(* the end of the text, or a token with an argument that no variant has.   *)
(* Blank lines and comment lines are passed over.                          *)
RECURSIVE FirstLexicalDefect(_, _)
FirstLexicalDefect(t, c) ==
    LET s == SkipSpaces(t, c)
    IN  IF s >= Len(t) THEN [kind |-> "none", at |-> Len(t)]
        ELSE IF At(t, s) = NL THEN FirstLexicalDefect(t, s + 1)
        ELSE IF At(t, s) = HASH
        THEN FirstLexicalDefect(t, LogicalLineEnd(t, s))
        ELSE IF TokenWithoutArgument(t, s)
        THEN [kind |-> "MissingArgument", at |-> s]
        ELSE IF Dangling(t, ArgStart(t, s))
        THEN [kind |-> "UnterminatedEscape", at |-> s]
        ELSE IF fromToken(TokenAt(t, s)) = NoType
        THEN [kind |-> "UnknownCommand", at |-> s]
        ELSE FirstLexicalDefect(t, LogicalLineEnd(t, ArgStart(t, s)))

(* What holds of a parse at every point, d being the first lexical defect  *)
(* of the text: a parse of a text with one ends with the error of that     *)
(* kind, raised inside that line, the commands pushed being those of the   *)
(* lines before it; the validation runs only on a text without any, with   *)
(* the cursor at its end, and decides the outcome of the parse of such a   *)
(* text.                                                                   *)
LexicalErrorFirst ==
    LET d == FirstLexicalDefect(text, 0)
    IN  /\ (Ended /\ d.kind # "none") =>
              /\ pc = "error"
              /\ LexicalKind(err) = d.kind
              /\ d.at < cursor
              /\ Len(result) = Len(LogicalCommands(SubSeq(text, 1, d.at), 0))
        /\ (pc = "error" /\ LexicalKind(err) # "none") =>
              LexicalKind(err) = d.kind
        /\ pc = "validate" => (d.kind = "none" /\ cursor = Len(text))
        /\ (Ended /\ d.kind = "none") =>
              /\ err = DocumentError(result)
              /\ (pc = "done") = (err = NoError)
              /\ cursor = Len(text)

(* C22: errors abort the parse: the first lexical error the scan meets     *)
(* (missing argument, unterminated escape, unknown command) ends the parse *)
(* with that error, whatever commands the lines before it gave, and after  *)
(* an error, as after a return, parse takes no further step, so no         *)
(* sequence is returned; the document-level checks run only once the whole *)
(* text is scanned without lexical error, so a text with a lexical error   *)
(* on any line fails with it and not with a document-level error.          *)
C22_ErrorsAbortLexicalFirst ==
    /\ []LexicalErrorFirst
    /\ [][~Ended]_vars

(* An unknown token on the second line of a text whose first command is    *)
(* not an origin: the parse fails with the lexical error, a command        *)
(* pushed and the validation never run.                                    *)
C22_Witness ==
    /\ pc = "error"
    /\ LexicalKind(err) = "UnknownCommand"
    /\ Len(result) >= 1
    /\ DocumentError(result) = NoOrigin
    /\ err.line = 2

---------------------------------------------------------------------------
(* What the claims say of the enumeration classes.                         *)

(* close has been called on T: only close freezes a class. *)
CloseCalled(T) == T \in frozen

(* The variants constructed for T, in the order of their construction. *)
VariantsOf(T) ==
    SelectSeq([v \in 1..Len(instances) |-> v], LAMBDA v : instances[v].type = T)

(* C14: close is one-way.  Once close has been called on a class T, every  *)
(* later step, be it a construction, another close or a query, leaves T    *)
(* closed, leaves the ordinal counter of T, the variants of T, their       *)
(* ordinals and their bindings on T as they were, and every attempt to     *)
(* construct a variant of T throws the 'cannot be modified anymore' error. *)
C14_CloseIsOneWay ==
    [][\A T \in EnumTypes :
          CloseCalled(T) =>
              /\ CloseCalled(T)'
              /\ IsClosed(T)'
              /\ NextOrdinal(T)' = NextOrdinal(T)
              /\ VariantsOf(T)' = VariantsOf(T)
              /\ \A v \in 1..Len(instances) :
                    instances[v].type = T =>
                        instances'[v].ord = instances[v].ord
              /\ statics'[T] = statics[T]
              /\ (ret'.op = "new" /\ ret'.target = T) =>
                    (ret'.threw /\ ret'.value = CannotModify(T))]_vars

(* A construction that fails on a class that was closed with two variants, *)
(* one of them bound.                                                      *)
C14_Witness ==
    /\ ret.op = "new"
    /\ ret.threw
    /\ CloseCalled(ret.target)
    /\ Len(VariantsOf(ret.target)) = 2
    /\ NextOrdinal(ret.target) = 2
    /\ statics[ret.target] # <<>>

---------------------------------------------------------------------------
(* v is bound on its class under key. *)
BoundUnder(v, key) ==
    \E i \in 1..Len(statics[instances[v].type]) :
        /\ statics[instances[v].type][i].key = key
        /\ statics[instances[v].type][i].value = v

(* C15, as stated: on a variant of a class close has not been called on,   *)
(* ord() and name() throw the 'unclosed enum' error and return nothing;    *)
(* once close has been called on the class they do not throw, ord()        *)
(* returns the ordinal the constructor assigned and name() a name the      *)
(* variant is bound under, when it is bound.                               *)
C15_QueriesGuardedByClose ==
    ret.op \in {"ord", "name"} =>
        LET v == ret.target
            T == instances[v].type
        IN  IF CloseCalled(T)
            THEN /\ ~ret.threw
                 /\ ret.op = "ord" => ret.value = instances[v].ord
                 /\ (ret.op = "name" /\ \E key \in Keys : BoundUnder(v, key))
                        => BoundUnder(v, ret.value)
            ELSE /\ ret.threw
                 /\ ret.value = Unclosed(T)

---------------------------------------------------------------------------
(* C16, as stated: fromName on a class close has not been called on throws *)
(* an error and never returns, whatever the state of the class, a class    *)
(* with no variant bound yet included, and whatever the name asked for.    *)
C16_FromNameGuardedByClose ==
    (ret.op = "fromName" /\ ~CloseCalled(ret.target)) => ret.threw

---------------------------------------------------------------------------
(* C17, as stated: ordinals are sequential and scoped per class.  The      *)
(* variants of each class T carry 0, 1, ..., n - 1 in the order of their   *)
(* construction, the next ordinal of T is the number of its variants, and  *)
(* T is closed only by a close of T: constructing a variant of another     *)
(* class or closing another class changes neither.                         *)
C17_OrdinalsPerType ==
    \A T \in EnumTypes :
        /\ \A k \in 1..Len(VariantsOf(T)) :
              instances[VariantsOf(T)[k]].ord = k - 1
        /\ NextOrdinal(T) = Len(VariantsOf(T))
        /\ IsClosed(T) => CloseCalled(T)

---------------------------------------------------------------------------
(* Every variant of T is bound on T under exactly one key. *)
EachBoundOnce(T) ==
    \A k \in 1..Len(VariantsOf(T)) :
        Cardinality({key \in Keys : BoundUnder(VariantsOf(T)[k], key)}) = 1

(* C18, as stated: values() on a class returns every variant constructed   *)
(* for the class, each once, in the order of construction (ascending       *)
(* ordinal), whatever the order and the names the variants were bound in.  *)
C18_ValuesInRegistrationOrder ==
    (ret.op = "values" /\ EachBoundOnce(ret.target)) =>
        ret.value = VariantsOf(ret.target)

---------------------------------------------------------------------------
(* C19, as stated: on a class close has been called on, fromName and name  *)
(* are inverse.  The variants values() returns have pairwise distinct      *)
(* names, fromName of the name of such a variant returns that variant,     *)
(* fromName of any other string returns not-found, and name() returns the  *)
(* name it returned before.                                                *)
C19_FromNameInvertsName ==
    \A T \in EnumTypes :
        CloseCalled(T) =>
            LET items == {EnumValues(T)[i] : i \in 1..Len(EnumValues(T))}
            IN  /\ \A v, w \in items : v # w => NameOf(v) # NameOf(w)
                /\ (ret.op = "fromName" /\ ret.target = T) =>
                      /\ ~ret.threw
                      /\ IF \E v \in items : NameOf(v) = ret.arg
                         THEN ret.value \in items /\ NameOf(ret.value) = ret.arg
                         ELSE ret.value = NoVariant
                /\ (ret.op = "name" /\ InstanceOf(ret.target, T)) =>
                      (~ret.threw /\ ret.value = instances[ret.target].name)

=============================================================================
